---- MODULE Spec2Model ----
(***************************************************************************)
(* Shelter edit form (pages/Shelter) and the updateShelter service.        *)
(*                                                                         *)
(* Strings are sequences of one-character strings, so that the regex       *)
(* replace /\D/g, the length rules and the e-mail rule are computed on     *)
(* the characters.  One step of the model is one browser task: a user      *)
(* event or the completion of a network request, together with every       *)
(* synchronous call and promise continuation it runs.                      *)
(***************************************************************************)
EXTENDS Integers, Sequences, FiniteSets, TLC

VARIABLES
    isLoading,      \* useShelter().isLoading
    data,           \* useShelter().data (NoData = undefined)
    fetching,       \* a GET of the get-shelter query is pending
    values,         \* react-hook-form field values
    defaultValues,  \* react-hook-form clean baseline (set by reset)
    errors,         \* formState.errors, one message per field
    isSubmitted,    \* formState.isSubmitted (drives re-validation on change)
    isSubmitting,   \* formState.isSubmitting
    inflight,       \* updateShelter calls awaiting their PUT: id, params, request
    calls,          \* number of updateShelter calls so far
    puts,           \* number of HTTP requests issued so far
    responses,      \* id -> how httpClient.put settled: fulfilled or rejected, with what
    outcomes,       \* id -> what the finished updateShelter call gave its caller
    consoleErrors,  \* console.error calls of updateShelter, in order
    log,            \* toasts and cache invalidations, in order
    typed,          \* phone validator harness: the string typed so far
    verdict         \* phone validator harness: result of the last refine

vars == <<isLoading, data, fetching, values, defaultValues, errors, isSubmitted,
          isSubmitting, inflight, calls, puts, responses, outcomes,
          consoleErrors, log, typed, verdict>>

formVars == <<isLoading, data, fetching, values, defaultValues, errors,
              isSubmitted, isSubmitting, inflight, calls, puts, responses,
              outcomes, consoleErrors, log>>

harnessVars == <<typed, verdict>>

-----------------------------------------------------------------------------
(* Bounds *)

\* submit attempts that reach updateShelter in one run
MaxSaves == 2

\* length of the strings typed into the phone validator harness
MaxTyped == 14

\* non-digit characters in one typed string
MaxSeparators == 4

-----------------------------------------------------------------------------
(* Characters and strings *)

Digits == {"0", "1", "2", "3", "4", "5", "6", "7", "8", "9"}

\* /\D/ : any character that is not a digit
IsNonDigit(c) == c \notin Digits

Rep(c, n) == [i \in 1..n |-> c]

\* value.replace(/\D/g, "") as a left-to-right scan
RECURSIVE StripNonDigits(_)
StripNonDigits(s) ==
    IF s = <<>> THEN <<>>
    ELSE IF IsNonDigit(Head(s)) THEN StripNonDigits(Tail(s))
         ELSE <<Head(s)>> \o StripNonDigits(Tail(s))

-----------------------------------------------------------------------------
(* shelterSchema *)

MinNameLen == 2
MaxNameLen == 30
MinPhoneDigits == 10
MaxPhoneDigits == 11

NoError == "none"
MsgNameMin == "Nome deve ter no mininimo 2 caracteres"
MsgNameMax == "Nome deve ter no maximo 30 caracteres"
MsgEmail == "Campo deve ser um email"
MsgPhone == "Numero deve ter entre 10 e 11 caracteres"

Fields == {"name", "email", "phone", "whatsApp"}

\* z.string().min(2, ...).max(30, ...): the first issue is the field's error
NameErrorNoMax(name) ==
    IF Len(name) < MinNameLen THEN MsgNameMin ELSE NoError
NameError(name) ==
    IF Len(name) < MinNameLen THEN MsgNameMin
    ELSE IF Len(name) > MaxNameLen THEN MsgNameMax
    ELSE NoError

\* z.string().email(...): one "@", a non-empty local part, and a domain with
\* an inner dot, over letters, digits, "." and "-"
EmailChars == {"a", "b", "c", "o", ".", "-", "@"} \cup Digits
IsEmail(s) ==
    /\ \A i \in 1..Len(s) : s[i] \in EmailChars
    /\ \E at \in 2..(Len(s) - 1) :
          /\ s[at] = "@"
          /\ \A i \in 1..Len(s) : s[i] = "@" => i = at
          /\ s[1] # "." /\ s[at - 1] # "."
          /\ s[at + 1] \notin {".", "-"}
          /\ s[Len(s)] \notin {".", "-"}
          /\ \E d \in (at + 2)..(Len(s) - 2) : s[d] = "."
EmailError(email) == IF IsEmail(email) THEN NoError ELSE MsgEmail

\* the refine callback of phone and of whatsApp
PhoneRuleByLength(value) ==
    Len(value) >= MinPhoneDigits /\ Len(value) <= MaxPhoneDigits
PhoneRule(value) ==
    LET digits == Len(StripNonDigits(value))
    IN  digits >= MinPhoneDigits /\ digits <= MaxPhoneDigits
PhoneError(value) == IF PhoneRule(value) THEN NoError ELSE MsgPhone

\* zodResolver(shelterSchema): every field's error for the given values
Resolver(v) ==
    [f \in Fields |->
        CASE f = "name" -> NameError(v.name)
          [] f = "email" -> EmailError(v.email)
          [] f = "phone" -> PhoneError(v.phone)
          [] f = "whatsApp" -> PhoneError(v.whatsApp)]

NoErrors == [f \in Fields |-> NoError]

-----------------------------------------------------------------------------
(* Inputs: what the user can type and what the API can hand back *)

Name1 == <<"a">>
Name2 == <<"a", "b">>
Name30 == Rep("a", MaxNameLen)
Name31 == Rep("a", MaxNameLen + 1)

EmailGood == <<"a", "@", "b", ".", "c", "o">>
EmailBad == <<"a", "b", ".", "c", "o">>

\* "99 9999-9999": the mask, fully typed, 10 digits
Phone10Masked == <<"9", "9", " ", "9", "9", "9", "9", "-", "9", "9", "9", "9">>
\* "99 999-999": 9 digits
Phone9Masked == <<"9", "9", " ", "9", "9", "9", "-", "9", "9", "9">>
\* "99 9999-999_": the mask with one placeholder left, 9 digits, 12 characters
Phone9Partial == <<"9", "9", " ", "9", "9", "9", "9", "-", "9", "9", "9", "_">>
\* "99 99999-9999": the second mask, 11 digits
Phone11Masked == <<"9", "9", " ", "9", "9", "9", "9", "9", "-", "9", "9", "9", "9">>
\* 12 bare digits
Phone12Raw == Rep("9", MaxPhoneDigits + 1)
\* 10 bare digits, as an API stores them
Phone10Raw == Rep("8", MinPhoneDigits)

NameInputs == {Name1, Name2, Name31}
EmailInputs == {EmailGood, EmailBad}
PhoneInputs == {Phone10Masked, Phone9Masked, Phone12Raw}
WhatsAppInputs == {Phone11Masked, Phone9Partial}

InputsOf(f) ==
    CASE f = "name" -> NameInputs
      [] f = "email" -> EmailInputs
      [] f = "phone" -> PhoneInputs
      [] f = "whatsApp" -> WhatsAppInputs

\* records GET /shelter can return
ServerRecords ==
    { [shelterName |-> Name30, shelterEmail |-> EmailGood,
       shelterPhone |-> Phone10Raw, shelterWhatsApp |-> Phone10Raw],
      [shelterName |-> Name2, shelterEmail |-> EmailGood,
       shelterPhone |-> Phone10Masked, shelterWhatsApp |-> Phone11Masked] }

\* response bodies and failures of PUT /shelter
ResponseData == {"echo"}
TransportErrors == {"status500", "networkError"}

\* the data of a query that has no result yet (undefined)
NoData == [undefined |-> TRUE]
EmptyForm == [name |-> <<>>, email |-> <<>>, phone |-> <<>>, whatsApp |-> <<>>]

-----------------------------------------------------------------------------
(* useShelter and the reset effect *)

\* if (!isLoading && data)
ResetGuard(loading, d) == ~loading /\ d # NoData

\* the argument of reset(...)
RecordToFormSwapped(d) ==
    [name |-> d.shelterName, email |-> d.shelterEmail,
     phone |-> d.shelterWhatsApp, whatsApp |-> d.shelterPhone]
RecordToForm(d) ==
    [name |-> d.shelterName, email |-> d.shelterEmail,
     phone |-> d.shelterPhone, whatsApp |-> d.shelterWhatsApp]

\* useEffect(..., [data, isLoading, reset]) after a render in which the hook's
\* result changed: reset(record) replaces values and baseline and clears the
\* errors and the submitted flag; otherwise the form state is left alone
ResetEffect ==
    IF ResetGuard(isLoading', data')
    THEN /\ values' = RecordToForm(data')
         /\ defaultValues' = RecordToForm(data')
         /\ errors' = NoErrors
         /\ isSubmitted' = FALSE
    ELSE UNCHANGED <<values, defaultValues, errors, isSubmitted>>

\* the pending GET delivers a record: a fresh data object
FetchDelivers(rec) ==
    /\ fetching
    /\ fetching' = FALSE
    /\ isLoading' = FALSE
    /\ data' = rec
    /\ ResetEffect
    /\ UNCHANGED <<isSubmitting, inflight, calls, puts, responses, outcomes,
                   consoleErrors, log>>
    /\ UNCHANGED harnessVars

\* the pending GET fails: data keeps its last value
FetchFails ==
    /\ fetching
    /\ fetching' = FALSE
    /\ isLoading' = FALSE
    /\ data' = data
    /\ IF isLoading' # isLoading
       THEN ResetEffect
       ELSE UNCHANGED <<values, defaultValues, errors, isSubmitted>>
    /\ UNCHANGED <<isSubmitting, inflight, calls, puts, responses, outcomes,
                   consoleErrors, log>>
    /\ UNCHANGED harnessVars

-----------------------------------------------------------------------------
(* Form state *)

\* formState.isDirty: the values differ from the baseline
IsDirty == values # defaultValues

\* {isLoading && <Skeleton/>} {!isLoading && <form>}
FormRenderedAlways == TRUE
FormRendered == ~isLoading

\* variant={!formState.isDirty || formState.isSubmitting ? Disabled : Default}
ButtonVariantIgnoringDirty(dirty, submitting) ==
    IF submitting THEN "Disabled" ELSE "Default"
ButtonVariantIgnoringSubmitting(dirty, submitting) ==
    IF ~dirty THEN "Disabled" ELSE "Default"
ButtonVariant(dirty, submitting) ==
    IF ~dirty \/ submitting THEN "Disabled" ELSE "Default"

\* Button: the Disabled variant renders a disabled submit control
ButtonDisabled(variant) == variant = "Disabled"

SubmitControlDisabled == ButtonDisabled(ButtonVariant(IsDirty, isSubmitting))

\* a change event on a registered input; after a submit the field is
\* validated again on every change
Edit(f, s) ==
    /\ FormRendered
    /\ values[f] # s
    /\ values' = [values EXCEPT ![f] = s]
    /\ errors' = IF isSubmitted
                 THEN [errors EXCEPT ![f] = Resolver(values')[f]]
                 ELSE errors
    /\ UNCHANGED <<isLoading, data, fetching, defaultValues, isSubmitted,
                   isSubmitting, inflight, calls, puts, responses, outcomes,
                   consoleErrors, log>>
    /\ UNCHANGED harnessVars

-----------------------------------------------------------------------------
(* updateShelter *)

\* httpClient.put("/shelter", params)
PutRequest(params) == [method |-> "PUT", path |-> "/shelter", body |-> params]

\* return response.data
OnPutFulfilled(response) == [kind |-> "return", value |-> response]

\* catch (error) { console.error(...); throw error; }
OnPutRejectedWrapped(error) == [kind |-> "throw", value |-> "Error"]
OnPutRejected(error) == [kind |-> "throw", value |-> error]

-----------------------------------------------------------------------------
(* submit *)

\* the argument submit builds for updateShelter
UpdateParamsUnstripped(v) ==
    [name |-> v.name, email |-> v.email, phone |-> v.phone,
     whatsApp |-> v.whatsApp]
UpdateParams(v) ==
    [name |-> v.name, email |-> v.email,
     phone |-> StripNonDigits(v.phone),
     whatsApp |-> StripNonDigits(v.whatsApp)]

ToastLoading(id) == [kind |-> "loading", id |-> id]
ToastSuccess(id) == [kind |-> "success", id |-> id]
ToastError(id) == [kind |-> "error", id |-> id]
Invalidate == [kind |-> "invalidate", key |-> "get-shelter"]

\* after the await: invalidateQueries, then toast.success
AfterResolvedToastFirst(id) == <<ToastSuccess(id), Invalidate>>
AfterResolved(id) == <<Invalidate, ToastSuccess(id)>>

\* the catch block: toast.error
AfterRejectedInvalidating(id) == <<Invalidate, ToastError(id)>>
AfterRejected(id) == <<ToastError(id)>>

\* the resolver lets the values through
Valid(v) == Resolver(v) = NoErrors

\* a submit event on the form: handleSubmit(submit).  Invalid values set the
\* field errors and end the attempt; valid values run submit up to its await.
SubmitEvent ==
    /\ FormRendered
    /\ ~SubmitControlDisabled
    /\ IF Valid(values)
       THEN /\ calls < MaxSaves
            /\ errors' = NoErrors
            /\ log' = Append(log, ToastLoading(calls + 1))
            /\ calls' = calls + 1
            /\ puts' = puts + 1
            /\ inflight' = inflight \cup
                  {[id |-> calls + 1,
                    params |-> UpdateParams(values),
                    request |-> PutRequest(UpdateParams(values))]}
            /\ isSubmitting' = TRUE
            /\ UNCHANGED isSubmitted
       ELSE /\ errors' = Resolver(values)
            /\ isSubmitted' = TRUE
            /\ isSubmitting' = FALSE
            /\ UNCHANGED <<log, calls, puts, inflight>>
    /\ UNCHANGED <<isLoading, data, fetching, values, defaultValues, responses,
                   outcomes, consoleErrors>>
    /\ UNCHANGED harnessVars

\* the PUT of attempt r succeeds: updateShelter returns, submit invalidates the
\* query (which starts a re-fetch) and swaps the toast, handleSubmit finishes
PutSucceeds(r, response) ==
    /\ r \in inflight
    /\ inflight' = inflight \ {r}
    /\ responses' = responses @@ (r.id :> [ok |-> TRUE, payload |-> response])
    /\ outcomes' = outcomes @@ (r.id :> OnPutFulfilled(response))
    /\ log' = log \o AfterResolved(r.id)
    /\ fetching' = (fetching
                    \/ \E i \in 1..Len(AfterResolved(r.id)) :
                          AfterResolved(r.id)[i] = Invalidate)
    /\ isSubmitting' = FALSE
    /\ isSubmitted' = TRUE
    /\ UNCHANGED <<isLoading, data, values, defaultValues, errors, calls, puts,
                   consoleErrors>>
    /\ UNCHANGED harnessVars

\* the PUT of attempt r fails: updateShelter logs and rethrows, submit catches
\* and swaps the toast, handleSubmit finishes
PutFails(r, error) ==
    /\ r \in inflight
    /\ inflight' = inflight \ {r}
    /\ consoleErrors' = Append(consoleErrors, error)
    /\ responses' = responses @@ (r.id :> [ok |-> FALSE, payload |-> error])
    /\ outcomes' = outcomes @@ (r.id :> OnPutRejected(error))
    /\ log' = log \o AfterRejected(r.id)
    /\ fetching' = (fetching
                    \/ \E i \in 1..Len(AfterRejected(r.id)) :
                          AfterRejected(r.id)[i] = Invalidate)
    /\ isSubmitting' = FALSE
    /\ isSubmitted' = TRUE
    /\ UNCHANGED <<isLoading, data, values, defaultValues, errors, calls, puts>>
    /\ UNCHANGED harnessVars

-----------------------------------------------------------------------------
(* Phone validator harness: the refine callback on typed strings *)

TypedAlphabet == {"9", " ", "-"}

TypeChar(c) ==
    /\ Len(typed) < MaxTyped
    /\ IsNonDigit(c) =>
          Cardinality({i \in 1..Len(typed) : IsNonDigit(typed[i])}) < MaxSeparators
    /\ typed' = Append(typed, c)
    /\ verdict' = "unchecked"
    /\ UNCHANGED formVars

Refine ==
    /\ verdict = "unchecked"
    /\ verdict' = IF PhoneRule(typed) THEN "accepted" ELSE "rejected"
    /\ UNCHANGED <<typed>>
    /\ UNCHANGED formVars

-----------------------------------------------------------------------------
(* Specifications *)

Init ==
    /\ isLoading = TRUE
    /\ data = NoData
    /\ fetching = TRUE
    /\ values = EmptyForm
    /\ defaultValues = EmptyForm
    /\ errors = NoErrors
    /\ isSubmitted = FALSE
    /\ isSubmitting = FALSE
    /\ inflight = {}
    /\ calls = 0
    /\ puts = 0
    /\ responses = <<>>
    /\ outcomes = <<>>
    /\ consoleErrors = <<>>
    /\ log = <<>>
    /\ typed = <<>>
    /\ verdict = "unchecked"

Next ==
    \/ \E rec \in ServerRecords : FetchDelivers(rec)
    \/ FetchFails
    \/ \E f \in Fields : \E s \in InputsOf(f) : Edit(f, s)
    \/ SubmitEvent
    \/ \E r \in inflight : \E response \in ResponseData : PutSucceeds(r, response)
    \/ \E r \in inflight : \E error \in TransportErrors : PutFails(r, error)

Spec == Init /\ [][Next]_vars

\* every PUT that was issued completes
PutCompletes ==
    \E r \in inflight :
        \/ \E response \in ResponseData : PutSucceeds(r, response)
        \/ \E error \in TransportErrors : PutFails(r, error)

FairSpec == Spec /\ WF_vars(PutCompletes)

NextValidator ==
    \/ \E c \in TypedAlphabet : TypeChar(c)
    \/ Refine

SpecValidator == Init /\ [][NextValidator]_vars

-----------------------------------------------------------------------------
(* Vocabulary of the properties, stated on the characters themselves *)

DigitCount(s) == Cardinality({i \in 1..Len(s) : s[i] \in Digits})
DigitsOnly(s) == SelectSeq(s, LAMBDA c : c \in Digits)
AllDigits(s) == \A i \in 1..Len(s) : s[i] \in Digits
Occurrences(e) == Cardinality({p \in 1..Len(log) : log[p] = e})
Invalidations == Cardinality({p \in 1..Len(log) : log[p].kind = "invalidate"})
Finished == DOMAIN outcomes

RulesHold(v) ==
    /\ Len(v.name) >= 2 /\ Len(v.name) <= 30
    /\ IsEmail(v.email)
    /\ DigitCount(v.phone) \in {10, 11}
    /\ DigitCount(v.whatsApp) \in {10, 11}

Violates(f, v) ==
    CASE f = "name" -> Len(v.name) < 2 \/ Len(v.name) > 30
      [] f = "email" -> ~IsEmail(v.email)
      [] f = "phone" -> DigitCount(v.phone) \notin {10, 11}
      [] f = "whatsApp" -> DigitCount(v.whatsApp) \notin {10, 11}

FormState ==
    IF isLoading THEN "Loading"
    ELSE IF isSubmitting THEN "Submitting" ELSE "Ready"

-----------------------------------------------------------------------------
(* C1: a submit attempt calls the update operation only when all four      *)
(* validation rules hold for the current values; when a rule is violated   *)
(* the attempt sends no request, invalidates nothing, and every violating  *)
(* field has an error message afterwards.                                  *)
C1_ValidationBlocksSubmission ==
    [][ /\ (calls' > calls \/ puts' > puts) => RulesHold(values)
        /\ (SubmitEvent /\ ~RulesHold(values)) =>
              /\ calls' = calls /\ puts' = puts /\ inflight' = inflight
              /\ log' = log /\ fetching' = fetching
              /\ \A f \in Fields : Violates(f, values) => errors'[f] # NoError
              /\ \A f \in Fields : ~Violates(f, values) => errors'[f] = NoError
      ]_vars

C1_Witness ==
    /\ calls = 0
    /\ isSubmitted
    /\ Len(values.name) > 30
    /\ errors["name"] = MsgNameMax
    /\ errors["phone"] = MsgPhone
    /\ errors["email"] = NoError

C4_RequestBodyNormalized ==
    [][ \A r \in inflight' \ inflight :
          /\ r.request.body.name = values.name
          /\ r.request.body.email = values.email
          /\ r.request.body.phone = DigitsOnly(values.phone)
          /\ r.request.body.whatsApp = DigitsOnly(values.whatsApp)
          /\ AllDigits(r.request.body.phone)
          /\ AllDigits(r.request.body.whatsApp)
          /\ Len(r.request.body.phone) \in {10, 11}
          /\ Len(r.request.body.whatsApp) \in {10, 11}
      ]_vars

C4_Witness ==
    \E r \in inflight :
        /\ r.request.body.phone = DigitsOnly(values.phone)
        /\ r.request.body.phone # values.phone
        /\ r.request.body.whatsApp # values.whatsApp
        /\ r.request.body.name = values.name

(* C5: a save whose update succeeded has exactly one success toast, with   *)
(* the one invalidation of get-shelter right before it, and no error       *)
(* toast; there are as many invalidations as succeeded saves, so none for  *)
(* a save that has not succeeded.                                          *)
C5_SuccessInvalidatesThenNotifies ==
    /\ \A i \in Finished :
          responses[i].ok =>
             /\ Occurrences(ToastSuccess(i)) = 1
             /\ Occurrences(ToastError(i)) = 0
             /\ \A p \in 1..Len(log) :
                   log[p] = ToastSuccess(i) => (p > 1 /\ log[p - 1] = Invalidate)
    /\ Invalidations = Cardinality({i \in Finished : responses[i].ok})
    /\ \A p \in 1..Len(log) :
          log[p] = Invalidate =>
             /\ p < Len(log)
             /\ \E i \in Finished : responses[i].ok /\ log[p + 1] = ToastSuccess(i)

C5_Witness ==
    \E i \in Finished :
        /\ responses[i].ok
        /\ log[Len(log)] = ToastSuccess(i)
        /\ fetching

C8_UpdateShelterContract ==
    /\ puts = calls
    /\ \A r \in inflight :
          r.request = [method |-> "PUT", path |-> "/shelter", body |-> r.params]
    /\ Finished = DOMAIN responses
    /\ \A i \in Finished :
          IF responses[i].ok
          THEN outcomes[i] = [kind |-> "return", value |-> responses[i].payload]
          ELSE outcomes[i] = [kind |-> "throw", value |-> responses[i].payload]
    /\ Len(consoleErrors) = Cardinality({i \in Finished : ~responses[i].ok})
    /\ \A e \in TransportErrors :
          Cardinality({p \in 1..Len(consoleErrors) : consoleErrors[p] = e})
             = Cardinality({i \in Finished :
                               ~responses[i].ok /\ responses[i].payload = e})

C8_Witness ==
    /\ calls = 2 /\ puts = 2
    /\ Len(consoleErrors) = 1
    /\ \E i \in Finished : outcomes[i].kind = "throw"
    /\ inflight # {}

(* C9: the phone / whatsApp rule accepts a string exactly when it holds 10 *)
(* or 11 digit characters, whatever other characters it holds;             *)
(* "99 9999-9999" is accepted and "99 999-999" is rejected.                *)
C9_PhoneRuleCountsDigits ==
    /\ (verdict = "accepted") => DigitCount(typed) \in {10, 11}
    /\ (verdict = "rejected") => DigitCount(typed) \notin {10, 11}
    /\ PhoneError(Phone10Masked) = NoError
    /\ PhoneError(Phone9Masked) = MsgPhone

C9_Witness ==
    /\ verdict = "accepted"
    /\ DigitCount(typed) = 10
    /\ Len(typed) = 12

(* C10: a fetch that delivers a record resets the form's values and its    *)
(* baseline to that record, field by field, whatever the user had typed,   *)
(* so the form is clean and the submit control disabled afterwards; the    *)
(* baseline changes only that way, never while loading or with no record.  *)
C10_FetchResetsForm ==
    /\ [][(\E rec \in ServerRecords : FetchDelivers(rec)) =>
             /\ values' = [name |-> data'.shelterName,
                           email |-> data'.shelterEmail,
                           phone |-> data'.shelterPhone,
                           whatsApp |-> data'.shelterWhatsApp]
             /\ defaultValues' = values'
             /\ ~IsDirty'
             /\ SubmitControlDisabled'
         ]_vars
    /\ [][defaultValues' # defaultValues =>
             /\ ~isLoading' /\ data' # NoData
             /\ fetching /\ ~fetching'
             /\ defaultValues'.name = data'.shelterName
         ]_vars
    /\ []((isLoading \/ data = NoData) => defaultValues = EmptyForm)

C10_Witness ==
    /\ \E i \in Finished : responses[i].ok
    /\ ~fetching
    /\ ~IsDirty
    /\ values.phone = data.shelterPhone
    /\ values.phone # values.whatsApp

====
